---- MODULE Spec2Model ----
(***************************************************************************)
(* Model of the number theory functions of Quantum++                       *)
(* (include/number_theory.h): x2contfrac, contfrac2x, gcd, lcm, invperm    *)
(* and compperm.  The functions are pure; the state of each specification  *)
(* is the set of locals of a caller that draws the arguments and stores    *)
(* what each call returns (a value, or the exception it throws).           *)
(***************************************************************************)
EXTENDS Integers, Sequences, FiniteSets, TLC

VARIABLES
    \* permutation algebra
    perm, sigma, pinv, sinv, c_p_pinv, c_pinv_p, c_p_s, inv_c, c_sinv_pinv,
    \* arguments of the pairwise gcd and lcm, and what the calls returned
    arg_m, arg_n, g_mn, g_nm, g_m0, g_0n, l_mn,
    \* one run of gcd(idx m, idx n): its parameters and local, where it is,
    \* how often the loop body ran, and what it returned
    m, n, result, pc, iters, ret,
    \* argument of the collection gcd and lcm, and what the calls returned
    ns, g_ns, l_ns,
    \* the rational cf_a / cf_b, the double x nearest to it, the term count
    \* and cutoff passed to x2contfrac, and what x2contfrac and contfrac2x
    \* returned
    cf_a, cf_b, x, cf_n, cut, cf, recon

permVars == <<perm, sigma, pinv, sinv, c_p_pinv, c_pinv_p, c_p_s, inv_c, c_sinv_pinv>>
pairVars == <<arg_m, arg_n, g_mn, g_nm, g_m0, g_0n, l_mn>>
loopVars == <<m, n, result, pc, iters, ret>>
collVars == <<ns, g_ns, l_ns>>
cfVars == <<cf_a, cf_b, x, cf_n, cut, cf, recon>>
vars == <<permVars, pairVars, loopVars, collVars, cfVars>>

(***************************************************************************)
(* Bounds of the model.                                                    *)
(***************************************************************************)
\* longest permutation vector drawn; entries are drawn from 0..MaxPerm
MaxPerm == 3
\* width in bits of idx (std::size_t), scaled down
IdxBits == 6
\* width in bits of unsigned int, the type of the literal 1u, scaled down
UIntBits == 5
\* longest collection drawn for the collection gcd and lcm
MaxColl == 3
\* largest element drawn for the collection gcd and lcm
MaxElem == 3
\* bits of the significand of a double, scaled down (a double has 53)
MantBits == 6
\* the rationals cf_a / cf_b drawn: |cf_a| <= MaxNum, 1 <= cf_b <= MaxDen
MaxNum == 7
MaxDen == 4
\* largest term count n drawn for x2contfrac
MaxTerms == 4

(***************************************************************************)
(* Constants of the program.                                               *)
(***************************************************************************)
\* the default of the parameter cut of x2contfrac, 1e5
DefaultCut == 100000

(***************************************************************************)
(* What a call leaves with its caller.                                     *)
(***************************************************************************)
NotRun == [status |-> "none"]
Ok(v) == [status |-> "ok", value |-> v]
Throw(kind) == [status |-> "error", kind |-> kind]
IsOk(r) == r.status = "ok"
IsErr(r) == r.status = "error"

\* the callers of the other functions have drawn nothing and called nothing
PermUnused == perm = <<>> /\ sigma = <<>>
PairIdle ==
    /\ arg_m = 0 /\ arg_n = 0
    /\ g_mn = NotRun /\ g_nm = NotRun /\ g_m0 = NotRun /\ g_0n = NotRun
    /\ l_mn = NotRun
LoopIdle ==
    /\ m = 0 /\ n = 0 /\ result = 0 /\ pc = "idle" /\ iters = 0 /\ ret = NotRun
CollIdle == ns = <<>> /\ g_ns = NotRun /\ l_ns = NotRun
CfIdle ==
    /\ cf_a = 0 /\ cf_b = 1 /\ x = <<0, 1>> /\ cf_n = 0 /\ cut = 0
    /\ cf = NotRun /\ recon = NotRun

\* all sequences over S of length at most k
RECURSIVE SeqsUpTo(_, _)
SeqsUpTo(S, k) ==
    IF k = 0 THEN {<<>>}
    ELSE LET shorter == SeqsUpTo(S, k - 1)
         IN shorter \cup {Append(s, e) : s \in {t \in shorter : Len(t) = k - 1}, e \in S}

(***************************************************************************)
(* Permutation algebra.  Vectors are 0-based in the code and 1-based       *)
(* here: element i of the code is v[i + 1].                                *)
(***************************************************************************)
\* internal::_check_perm: every element in [0, N), all elements distinct
_check_perm(v) ==
    /\ \A i \in 1..Len(v) : v[i] >= 0 /\ v[i] < Len(v)
    /\ \A i, j \in 1..Len(v) : i # j => v[i] # v[j]

\* std::vector<idx> result(size): size value-initialised (zero) elements
ZeroVector(size) == [i \in 1..size |-> 0]

\* the loop of invperm from index i on: result[perm[i]] = i
RECURSIVE invperm_loop(_, _, _)
invperm_loop(p, i, res) ==
    IF i < Len(p)
    THEN invperm_loop(p, i + 1, [res EXCEPT ![p[i + 1] + 1] = i])
    ELSE res

\* a slip in the loop of invperm: result[i] = perm[i]
RECURSIVE invperm_loop_copy(_, _, _)
invperm_loop_copy(p, i, res) ==
    IF i < Len(p)
    THEN invperm_loop_copy(p, i + 1, [res EXCEPT ![i + 1] = p[i + 1]])
    ELSE res

invperm_copy(p) ==
    IF ~_check_perm(p) THEN Throw("PERM_INVALID")
    ELSE Ok(invperm_loop_copy(p, 0, ZeroVector(Len(p))))

invperm(p) ==
    IF ~_check_perm(p) THEN Throw("PERM_INVALID")
    ELSE Ok(invperm_loop(p, 0, ZeroVector(Len(p))))

\* the loop of compperm from index i on: result[i] = perm[sigma[i]];
\* it runs while i < last
RECURSIVE compperm_loop(_, _, _, _, _)
compperm_loop(p, s, i, last, res) ==
    IF i < last
    THEN compperm_loop(p, s, i + 1, last, [res EXCEPT ![i + 1] = p[s[i + 1] + 1]])
    ELSE res

\* a slip in the loop of compperm: it stops one element early
compperm_short(p, s) ==
    IF ~_check_perm(p) THEN Throw("PERM_INVALID")
    ELSE IF ~_check_perm(s) THEN Throw("PERM_INVALID")
    ELSE IF Len(p) # Len(s) THEN Throw("PERM_INVALID")
    ELSE Ok(compperm_loop(p, s, 0, Len(p) - 1, ZeroVector(Len(p))))

compperm(p, s) ==
    IF ~_check_perm(p) THEN Throw("PERM_INVALID")
    ELSE IF ~_check_perm(s) THEN Throw("PERM_INVALID")
    ELSE IF Len(p) # Len(s) THEN Throw("PERM_INVALID")
    ELSE Ok(compperm_loop(p, s, 0, Len(p), ZeroVector(Len(p))))

\* the vectors a caller may pass: any vector, a permutation or not
PermInputs == SeqsUpTo(0..(MaxPerm - 1), MaxPerm)

PermIdle ==
    /\ pinv = NotRun /\ sinv = NotRun /\ c_p_pinv = NotRun /\ c_pinv_p = NotRun
    /\ c_p_s = NotRun /\ inv_c = NotRun /\ c_sinv_pinv = NotRun

InitPerm ==
    /\ perm \in PermInputs
    /\ sigma \in PermInputs
    /\ PermIdle
    /\ PairIdle /\ LoopIdle /\ CollIdle /\ CfIdle

\* pinv = invperm(perm)
CallInvPerm ==
    /\ pinv = NotRun
    /\ pinv' = invperm(perm)
    /\ UNCHANGED <<perm, sigma, sinv, c_p_pinv, c_pinv_p, c_p_s, inv_c, c_sinv_pinv>>
    /\ UNCHANGED <<pairVars, loopVars, collVars, cfVars>>

\* sinv = invperm(sigma)
CallInvSigma ==
    /\ sinv = NotRun
    /\ sinv' = invperm(sigma)
    /\ UNCHANGED <<perm, sigma, pinv, c_p_pinv, c_pinv_p, c_p_s, inv_c, c_sinv_pinv>>
    /\ UNCHANGED <<pairVars, loopVars, collVars, cfVars>>

\* c_p_pinv = compperm(perm, invperm(perm)); an exception of invperm
\* leaves the caller before this call
CallCompPermInv ==
    /\ IsOk(pinv) /\ c_p_pinv = NotRun
    /\ c_p_pinv' = compperm(perm, pinv.value)
    /\ UNCHANGED <<perm, sigma, pinv, sinv, c_pinv_p, c_p_s, inv_c, c_sinv_pinv>>
    /\ UNCHANGED <<pairVars, loopVars, collVars, cfVars>>

\* c_pinv_p = compperm(invperm(perm), perm)
CallCompInvPerm ==
    /\ IsOk(pinv) /\ c_pinv_p = NotRun
    /\ c_pinv_p' = compperm(pinv.value, perm)
    /\ UNCHANGED <<perm, sigma, pinv, sinv, c_p_pinv, c_p_s, inv_c, c_sinv_pinv>>
    /\ UNCHANGED <<pairVars, loopVars, collVars, cfVars>>

\* c_p_s = compperm(perm, sigma)
CallCompPermSigma ==
    /\ c_p_s = NotRun
    /\ c_p_s' = compperm(perm, sigma)
    /\ UNCHANGED <<perm, sigma, pinv, sinv, c_p_pinv, c_pinv_p, inv_c, c_sinv_pinv>>
    /\ UNCHANGED <<pairVars, loopVars, collVars, cfVars>>

\* inv_c = invperm(compperm(perm, sigma))
CallInvComp ==
    /\ IsOk(c_p_s) /\ inv_c = NotRun
    /\ inv_c' = invperm(c_p_s.value)
    /\ UNCHANGED <<perm, sigma, pinv, sinv, c_p_pinv, c_pinv_p, c_p_s, c_sinv_pinv>>
    /\ UNCHANGED <<pairVars, loopVars, collVars, cfVars>>

\* c_sinv_pinv = compperm(invperm(sigma), invperm(perm))
CallCompInvs ==
    /\ IsOk(pinv) /\ IsOk(sinv) /\ c_sinv_pinv = NotRun
    /\ c_sinv_pinv' = compperm(sinv.value, pinv.value)
    /\ UNCHANGED <<perm, sigma, pinv, sinv, c_p_pinv, c_pinv_p, c_p_s, inv_c>>
    /\ UNCHANGED <<pairVars, loopVars, collVars, cfVars>>

NextPerm ==
    \/ CallInvPerm
    \/ CallInvSigma
    \/ CallCompPermInv
    \/ CallCompInvPerm
    \/ CallCompPermSigma
    \/ CallInvComp
    \/ CallCompInvs

SpecPerm == InitPerm /\ [][NextPerm]_vars

Identity(size) == [i \in 1..size |-> i - 1]

\* C1: for a valid permutation perm, compperm(perm, invperm(perm)) and
\* compperm(invperm(perm), perm) are both the identity [0, 1, ..., N-1],
\* and invperm(perm)[perm[i]] = i for every index i.
C1_InverseComposesToIdentity ==
    _check_perm(perm) =>
        /\ pinv # NotRun =>
             /\ IsOk(pinv)
             /\ Len(pinv.value) = Len(perm)
             /\ \A i \in 1..Len(perm) : pinv.value[perm[i] + 1] = i - 1
        /\ c_p_pinv # NotRun => c_p_pinv = Ok(Identity(Len(perm)))
        /\ c_pinv_p # NotRun => c_pinv_p = Ok(Identity(Len(perm)))

\* a permutation that is not its own inverse has been inverted and composed
\* with its inverse on both sides
C1_Witness ==
    /\ _check_perm(perm) /\ Len(perm) = MaxPerm
    /\ IsOk(pinv) /\ pinv.value # perm
    /\ IsOk(c_p_pinv) /\ IsOk(c_pinv_p)

\* C2: for valid permutations perm and sigma of the same length,
\* invperm(compperm(perm, sigma)) = compperm(invperm(sigma), invperm(perm)),
\* where compperm(perm, sigma)[i] = perm[sigma[i]].
C2_InverseOfComposition ==
    (_check_perm(perm) /\ _check_perm(sigma) /\ Len(perm) = Len(sigma)) =>
        /\ c_p_s # NotRun =>
             /\ IsOk(c_p_s)
             /\ Len(c_p_s.value) = Len(perm)
             /\ \A i \in 1..Len(perm) : c_p_s.value[i] = perm[sigma[i] + 1]
        /\ inv_c # NotRun => IsOk(inv_c)
        /\ c_sinv_pinv # NotRun => IsOk(c_sinv_pinv)
        /\ (inv_c # NotRun /\ c_sinv_pinv # NotRun) => inv_c = c_sinv_pinv

\* two permutations that do not commute have been composed and inverted
C2_Witness ==
    /\ _check_perm(perm) /\ _check_perm(sigma) /\ Len(perm) = Len(sigma)
    /\ IsOk(inv_c) /\ IsOk(c_sinv_pinv)
    /\ compperm(perm, sigma) # compperm(sigma, perm)

(***************************************************************************)
(* Integer reduction.  idx is an unsigned integer type: its arithmetic is  *)
(* modulo 2^IdxBits.                                                       *)
(***************************************************************************)
IdxMod == 2 ^ IdxBits
UIntMod == 2 ^ UIntBits
IdxValues == 0..(IdxMod - 1)

\* x * y in idx
IdxMul(a, b) == (a * b) % IdxMod

\* conversion of an idx to unsigned int
ToUInt(a) == a % UIntMod

Max(a, b) == IF a >= b THEN a ELSE b
Min(a, b) == IF a <= b THEN a ELSE b

\* a slip in the body of the loop of gcd: the operands of % exchanged
GcdBody_swapped(st) ==
    [result |-> st.n, n |-> st.n % st.m, m |-> st.n]

\* the body of the loop of gcd: result = n; n = m % result; m = result;
GcdBody(st) ==
    [result |-> st.n, n |-> st.m % st.n, m |-> st.n]

\* while (n) { body }  return result;
RECURSIVE gcd_loop(_)
gcd_loop(st) ==
    IF st.n # 0 THEN gcd_loop(GcdBody(st)) ELSE st.result

\* a slip in gcd: std::min for std::max
gcd_min(a, b) ==
    IF a = 0 \/ b = 0 THEN Min(a, b)
    ELSE gcd_loop([m |-> a, n |-> b, result |-> 1])

\* idx gcd(idx m, idx n)
gcd(a, b) ==
    IF a = 0 \/ b = 0 THEN Max(a, b)
    ELSE gcd_loop([m |-> a, n |-> b, result |-> 1])

\* idx lcm(idx m, idx n)
lcm(a, b) ==
    IF a = 0 \/ b = 0 THEN Throw("OUT_OF_RANGE")
    ELSE Ok(IdxMul(a, b) \div gcd(a, b))

\* the loop of the collection gcd from index i on; it runs while i < last
RECURSIVE gcd_coll_loop(_, _, _, _)
gcd_coll_loop(v, i, last, res) ==
    IF i < last THEN gcd_coll_loop(v, i + 1, last, gcd(res, v[i + 1])) ELSE res

\* a slip in the collection gcd: the loop stops one element early
gcd_coll_short(v) ==
    IF Len(v) = 0 THEN Throw("ZERO_SIZE")
    ELSE Ok(gcd_coll_loop(v, 1, Len(v) - 1, v[1]))

\* idx gcd(const std::vector<idx>& ns)
gcd_coll(v) ==
    IF Len(v) = 0 THEN Throw("ZERO_SIZE")
    ELSE Ok(gcd_coll_loop(v, 1, Len(v), v[1]))

\* std::accumulate(begin, end, 1u, multiply): the accumulator has the type
\* of 1u, unsigned int, and each product, computed in idx, is converted to it
RECURSIVE accumulate_multiply(_, _, _)
accumulate_multiply(v, i, acc) ==
    IF i < Len(v) THEN accumulate_multiply(v, i + 1, ToUInt(IdxMul(acc, v[i + 1])))
    ELSE acc

\* std::find(begin, end, 0) != end
HasZero(v) == \E i \in 1..Len(v) : v[i] = 0

\* the product of the collection lcm divided by the collection gcd
lcm_coll_reduce(v) == Ok(accumulate_multiply(v, 0, 1) \div gcd_coll(v).value)

\* a slip in the collection lcm: the zero scan made before the singleton case
lcm_coll_uniform(v) ==
    IF Len(v) = 0 THEN Throw("ZERO_SIZE")
    ELSE IF HasZero(v) THEN Throw("OUT_OF_RANGE")
    ELSE IF Len(v) = 1 THEN Ok(v[1])
    ELSE lcm_coll_reduce(v)

\* idx lcm(const std::vector<idx>& ns)
lcm_coll(v) ==
    IF Len(v) = 0 THEN Throw("ZERO_SIZE")
    ELSE IF Len(v) = 1 THEN Ok(v[1])
    ELSE IF HasZero(v) THEN Throw("OUT_OF_RANGE")
    ELSE lcm_coll_reduce(v)

(***************************************************************************)
(* A caller of the pairwise gcd and lcm.                                   *)
(***************************************************************************)
InitPair ==
    /\ arg_m \in IdxValues
    /\ arg_n \in IdxValues
    /\ g_mn = NotRun /\ g_nm = NotRun /\ g_m0 = NotRun /\ g_0n = NotRun
    /\ l_mn = NotRun
    /\ PermUnused /\ PermIdle /\ LoopIdle /\ CollIdle /\ CfIdle

\* g_mn = gcd(m, n)
CallGcdMN ==
    /\ g_mn = NotRun
    /\ g_mn' = Ok(gcd(arg_m, arg_n))
    /\ UNCHANGED <<arg_m, arg_n, g_nm, g_m0, g_0n, l_mn>>
    /\ UNCHANGED <<permVars, loopVars, collVars, cfVars>>

\* g_nm = gcd(n, m)
CallGcdNM ==
    /\ g_nm = NotRun
    /\ g_nm' = Ok(gcd(arg_n, arg_m))
    /\ UNCHANGED <<arg_m, arg_n, g_mn, g_m0, g_0n, l_mn>>
    /\ UNCHANGED <<permVars, loopVars, collVars, cfVars>>

\* g_m0 = gcd(m, 0)
CallGcdM0 ==
    /\ g_m0 = NotRun
    /\ g_m0' = Ok(gcd(arg_m, 0))
    /\ UNCHANGED <<arg_m, arg_n, g_mn, g_nm, g_0n, l_mn>>
    /\ UNCHANGED <<permVars, loopVars, collVars, cfVars>>

\* g_0n = gcd(0, n)
CallGcd0N ==
    /\ g_0n = NotRun
    /\ g_0n' = Ok(gcd(0, arg_n))
    /\ UNCHANGED <<arg_m, arg_n, g_mn, g_nm, g_m0, l_mn>>
    /\ UNCHANGED <<permVars, loopVars, collVars, cfVars>>

\* l_mn = lcm(m, n)
CallLcmMN ==
    /\ l_mn = NotRun
    /\ l_mn' = lcm(arg_m, arg_n)
    /\ UNCHANGED <<arg_m, arg_n, g_mn, g_nm, g_m0, g_0n>>
    /\ UNCHANGED <<permVars, loopVars, collVars, cfVars>>

NextPair ==
    \/ CallGcdMN
    \/ CallGcdNM
    \/ CallGcdM0
    \/ CallGcd0N
    \/ CallLcmMN

SpecPair == InitPair /\ [][NextPair]_vars

(***************************************************************************)
(* One run of gcd(idx m, idx n), statement by statement.                   *)
(***************************************************************************)
InitLoop ==
    /\ arg_m \in IdxValues
    /\ arg_n \in IdxValues
    /\ m = arg_m /\ n = arg_n /\ result = 0
    /\ pc = "entry" /\ iters = 0 /\ ret = NotRun
    /\ g_mn = NotRun /\ g_nm = NotRun /\ g_m0 = NotRun /\ g_0n = NotRun
    /\ l_mn = NotRun
    /\ PermUnused /\ PermIdle /\ CollIdle /\ CfIdle

\* if (m == 0 || n == 0) return (std::max(m, n));
GcdReturnOperand ==
    /\ pc = "entry"
    /\ m = 0 \/ n = 0
    /\ ret' = Ok(Max(m, n))
    /\ pc' = "done"
    /\ UNCHANGED <<m, n, result, iters>>
    /\ UNCHANGED <<permVars, pairVars, collVars, cfVars>>

\* idx result = 1;
GcdEnterLoop ==
    /\ pc = "entry"
    /\ m # 0 /\ n # 0
    /\ result' = 1
    /\ pc' = "loop"
    /\ UNCHANGED <<m, n, iters, ret>>
    /\ UNCHANGED <<permVars, pairVars, collVars, cfVars>>

\* while (n) { result = n; n = m % result; m = result; }
GcdIterate ==
    /\ pc = "loop"
    /\ n # 0
    /\ LET st == GcdBody([m |-> m, n |-> n, result |-> result])
       IN /\ m' = st.m
          /\ n' = st.n
          /\ result' = st.result
    /\ iters' = iters + 1
    /\ UNCHANGED <<pc, ret>>
    /\ UNCHANGED <<permVars, pairVars, collVars, cfVars>>

\* return result;
GcdReturnResult ==
    /\ pc = "loop"
    /\ n = 0
    /\ ret' = Ok(result)
    /\ pc' = "done"
    /\ UNCHANGED <<m, n, result, iters>>
    /\ UNCHANGED <<permVars, pairVars, collVars, cfVars>>

NextLoop ==
    \/ GcdReturnOperand
    \/ GcdEnterLoop
    \/ GcdIterate
    \/ GcdReturnResult

\* a call that has started runs on: nothing suspends or cancels it
SpecLoop == InitLoop /\ [][NextLoop]_vars /\ WF_vars(NextLoop)

(***************************************************************************)
(* A caller of the collection gcd and lcm.                                 *)
(***************************************************************************)
InitColl ==
    /\ ns \in SeqsUpTo(0..MaxElem, MaxColl)
    /\ g_ns = NotRun /\ l_ns = NotRun
    /\ PermUnused /\ PermIdle /\ PairIdle /\ LoopIdle /\ CfIdle

\* g_ns = gcd(ns)
CallGcdColl ==
    /\ g_ns = NotRun
    /\ g_ns' = gcd_coll(ns)
    /\ UNCHANGED <<ns, l_ns>>
    /\ UNCHANGED <<permVars, pairVars, loopVars, cfVars>>

\* l_ns = lcm(ns)
CallLcmColl ==
    /\ l_ns = NotRun
    /\ l_ns' = lcm_coll(ns)
    /\ UNCHANGED <<ns, g_ns>>
    /\ UNCHANGED <<permVars, pairVars, loopVars, cfVars>>

NextColl ==
    \/ CallGcdColl
    \/ CallLcmColl

SpecColl == InitColl /\ [][NextColl]_vars


(***************************************************************************)
(* Properties of the integer reduction.                                    *)
(***************************************************************************)
\* d divides v (every integer divides 0; 0 divides only 0)
Divides(d, v) == \E k \in 0..v : v = k * d

\* d divides every element of v
CommonDivisor(d, v) == \A i \in 1..Len(v) : Divides(d, v[i])

\* the first of k, k + step, k + 2 step, ... that every element of v divides
RECURSIVE FirstCommonMultiple(_, _, _)
FirstCommonMultiple(v, k, step) ==
    IF \A i \in 1..Len(v) : k % v[i] = 0 THEN k
    ELSE FirstCommonMultiple(v, k + step, step)

\* the least common multiple of the strictly positive elements of v
LeastCommonMultiple(v) == FirstCommonMultiple(v, v[1], v[1])

AllPositive(v) == \A i \in 1..Len(v) : v[i] > 0

\* C3 as stated: for every non-empty collection of non-negative integers,
\* also one of zeros only, gcd(ns) divides every element and no larger
\* common divisor of all elements exists.
C3_GcdIsGreatestCommonDivisor ==
    (Len(ns) > 0 /\ g_ns # NotRun) =>
        /\ IsOk(g_ns)
        /\ CommonDivisor(g_ns.value, ns)
        /\ ~\E d \in IdxValues : d > g_ns.value /\ CommonDivisor(d, ns)

\* C3 as amended: for every non-empty collection of non-negative integers
\* gcd(ns) divides every element; if some element is not zero, no larger
\* common divisor exists; if all elements are zero, gcd(ns) is 0.
C3_GcdIsGreatestUnlessAllZero ==
    (Len(ns) > 0 /\ g_ns # NotRun) =>
        /\ IsOk(g_ns)
        /\ CommonDivisor(g_ns.value, ns)
        /\ (\E i \in 1..Len(ns) : ns[i] # 0) =>
               ~\E d \in IdxValues : d > g_ns.value /\ CommonDivisor(d, ns)
        /\ (\A i \in 1..Len(ns) : ns[i] = 0) => g_ns.value = 0

\* the gcd of a collection of a zero and two equal larger elements
C3_Witness ==
    /\ Len(ns) >= 3 /\ HasZero(ns)
    /\ IsOk(g_ns) /\ g_ns.value > 1

\* C4: for every collection of two or more strictly positive integers,
\* lcm(ns) is the least common multiple of its elements.
C4_LcmIsLeastCommonMultiple ==
    (Len(ns) >= 2 /\ AllPositive(ns) /\ l_ns # NotRun) =>
        l_ns = Ok(LeastCommonMultiple(ns))

\* C5: for all strictly positive m and n, lcm(m, n) * gcd(m, n) = m * n
\* (both products in idx).
C5_LcmTimesGcdIsProduct ==
    (arg_m > 0 /\ arg_n > 0 /\ l_mn # NotRun /\ g_mn # NotRun) =>
        /\ IsOk(l_mn)
        /\ IdxMul(l_mn.value, g_mn.value) = IdxMul(arg_m, arg_n)

\* C6: gcd(m, n) = gcd(n, m), gcd(m, 0) = m and gcd(0, n) = n, for all
\* non-negative m and n (so gcd(0, 0) = 0).
C6_GcdSymmetricZeroNeutral ==
    /\ (g_mn # NotRun /\ g_nm # NotRun) => g_mn = g_nm
    /\ g_m0 # NotRun => g_m0 = Ok(arg_m)
    /\ g_0n # NotRun => g_0n = Ok(arg_n)
    /\ (arg_m = 0 /\ arg_n = 0 /\ g_mn # NotRun) => g_mn = Ok(0)

\* all four calls made on two different operands with a common factor
C6_Witness ==
    /\ arg_m > arg_n /\ arg_n > 1
    /\ IsOk(g_mn) /\ IsOk(g_nm) /\ IsOk(g_m0) /\ IsOk(g_0n)
    /\ g_mn.value > 1 /\ g_mn.value < arg_n

\* C7: lcm(ns) throws ZERO_SIZE for an empty collection; returns the sole
\* element of a singleton, also 0; for two or more elements throws
\* OUT_OF_RANGE if and only if an element is zero; a call that throws
\* returns no value.
C7_LcmErrorOutcomes ==
    l_ns # NotRun =>
        /\ Len(ns) = 0 => l_ns = Throw("ZERO_SIZE")
        /\ Len(ns) = 1 => l_ns = Ok(ns[1])
        /\ Len(ns) >= 2 =>
             /\ HasZero(ns) => l_ns = Throw("OUT_OF_RANGE")
             /\ ~HasZero(ns) => IsOk(l_ns)
        /\ IsErr(l_ns) => "value" \notin DOMAIN l_ns

\* the lcm of the singleton {0} has returned 0
C7_Witness ==
    /\ ns = <<0>>
    /\ l_ns = Ok(0)

\* C9: for strictly positive m and n whose least common multiple is
\* representable in idx, lcm(m, n) returns it, also when m * n is not
\* representable.
C9_LcmAvoidsOverflow ==
    (/\ arg_m > 0 /\ arg_n > 0 /\ l_mn # NotRun
     /\ LeastCommonMultiple(<<arg_m, arg_n>>) < IdxMod) =>
        l_mn = Ok(LeastCommonMultiple(<<arg_m, arg_n>>))

\* C10: gcd(m, n) never throws and terminates; with both operands non-zero
\* every iteration of the loop strictly decreases n, the current remainder,
\* until it is zero, within min(m, n) + 1 iterations; with a zero operand it
\* returns without entering the loop.
C10_GcdTerminates ==
    /\ [](ret # NotRun => IsOk(ret))
    /\ [][(pc = "loop" /\ pc' = "loop") => n' < n]_vars
    /\ [][(pc = "loop" /\ pc' = "done") => n = 0]_vars
    /\ [](iters <= Min(arg_m, arg_n) + 1)
    /\ []((arg_m = 0 \/ arg_n = 0) => (pc # "loop" /\ iters = 0))
    /\ <>(pc = "done")

\* a run on m < n that took three or more iterations has returned
C10_Witness ==
    /\ arg_m > 0 /\ arg_m < arg_n
    /\ pc = "done" /\ IsOk(ret) /\ iters >= 3

(***************************************************************************)
(* Continued fractions.  A finite double is the dyadic rational            *)
(* <<num, den>> in lowest terms, den a power of two; +infinity is <<1, 0>>.*)
(* Every arithmetic operation rounds its exact result to the nearest value *)
(* of MantBits significant bits, ties to even.                             *)
(***************************************************************************)
Inf == <<1, 0>>
Zero == <<0, 1>>

\* num / den scaled by a power of two into [2^(MantBits-1), 2^MantBits)
RECURSIVE Normalise(_, _, _)
Normalise(num, den, e) ==
    IF num >= den * 2 ^ MantBits THEN Normalise(num, 2 * den, e + 1)
    ELSE IF num < den * 2 ^ (MantBits - 1) THEN Normalise(2 * num, den, e - 1)
    ELSE [num |-> num, den |-> den, e |-> e]

\* the integer nearest to num / den, ties to even
RoundHalfEven(num, den) ==
    LET q == num \div den
        r == num % den
    IN IF 2 * r > den \/ (2 * r = den /\ q % 2 = 1) THEN q + 1 ELSE q

\* num / den in lowest terms, den a power of two
RECURSIVE Reduce(_, _)
Reduce(num, den) ==
    IF den > 1 /\ num % 2 = 0 THEN Reduce(num \div 2, den \div 2)
    ELSE <<num, den>>

\* the double nearest to num / den, for num > 0 and den > 0
RoundPositive(num, den) ==
    LET s == Normalise(num, den, 0)
        q == RoundHalfEven(s.num, s.den)
    IN IF s.e >= 0 THEN <<q * 2 ^ s.e, 1>> ELSE Reduce(q, 2 ^ (0 - s.e))

\* the double nearest to num / den, for den > 0
ToDouble(num, den) ==
    IF num = 0 THEN Zero
    ELSE IF num > 0 THEN RoundPositive(num, den)
    ELSE LET r == RoundPositive(0 - num, den) IN <<0 - r[1], r[2]>>

IsFinite(v) == v[2] # 0

\* a slip in x2contfrac: the double cast to an integer, which truncates
\* toward zero, for std::floor
Floor_truncate(v) ==
    IF v[1] >= 0 THEN v[1] \div v[2] ELSE 0 - ((0 - v[1]) \div v[2])

\* std::llround(std::floor(x)), for a finite x: the floor of a double is an
\* integer-valued double, which llround returns as that integer
Floor(v) == v[1] \div v[2]

\* v + w in double
FAdd(v, w) ==
    IF ~IsFinite(v) \/ ~IsFinite(w) THEN Inf
    ELSE ToDouble(v[1] * w[2] + w[1] * v[2], v[2] * w[2])

\* v - w in double, for finite v and w
FSub(v, w) == ToDouble(v[1] * w[2] - w[1] * v[2], v[2] * w[2])

\* 1 / v in double; the zeros that arise here are +0, and 1 / +0 is +infinity
FRecip(v) ==
    IF ~IsFinite(v) THEN Zero
    ELSE IF v[1] = 0 THEN Inf
    ELSE IF v[1] > 0 THEN ToDouble(v[2], v[1])
    ELSE ToDouble(0 - v[2], 0 - v[1])

\* v > w in double, for a finite w
FGreater(v, w) ==
    IF ~IsFinite(v) THEN TRUE ELSE v[1] * w[2] > w[1] * v[2]

\* conversion of an integer to double
IntToDouble(k) == ToDouble(k, 1)

\* the loop of x2contfrac from index i on:
\*   result.push_back(std::llround(std::floor(x)));
\*   x = 1 / (x - std::floor(x));
\*   if (!std::isfinite(x) || x > cut) return result;
RECURSIVE x2contfrac_loop(_, _, _, _, _)
x2contfrac_loop(v, i, count, c, res) ==
    IF i < count
    THEN LET pushed == Append(res, Floor(v))
             next == FRecip(FSub(v, IntToDouble(Floor(v))))
         IN IF ~IsFinite(next) \/ FGreater(next, IntToDouble(c)) THEN pushed
            ELSE x2contfrac_loop(next, i + 1, count, c, pushed)
    ELSE res

\* std::vector<long long int> x2contfrac(double x, idx n, idx cut)
x2contfrac(v, count, c) ==
    IF count = 0 THEN Throw("OUT_OF_RANGE")
    ELSE Ok(x2contfrac_loop(v, 0, count, c, <<>>))

\* the loop of contfrac2x from index i down to 1: tmp = 1. / (tmp + cf[i])
RECURSIVE contfrac2x_loop(_, _, _)
contfrac2x_loop(terms, i, tmp) ==
    IF i # 0
    THEN contfrac2x_loop(terms, i - 1, FRecip(FAdd(tmp, IntToDouble(terms[i + 1]))))
    ELSE tmp

\* double contfrac2x(const std::vector<int>& cf)
contfrac2x(terms) ==
    IF Len(terms) = 0 THEN Throw("ZERO_SIZE")
    ELSE IF Len(terms) = 1 THEN Ok(IntToDouble(terms[1]))
    ELSE LET tmp == FRecip(IntToDouble(terms[Len(terms)]))
         IN Ok(FAdd(IntToDouble(terms[1]),
                    contfrac2x_loop(terms, Len(terms) - 2, tmp)))

(***************************************************************************)
(* A caller that expands the rational cf_a / cf_b and reconstructs a value *)
(* from the terms.                                                         *)
(***************************************************************************)
Cuts == {1, MaxNum, DefaultCut}

InitCf ==
    /\ cf_a \in (0 - MaxNum)..MaxNum
    /\ cf_b \in 1..MaxDen
    /\ x = ToDouble(cf_a, cf_b)
    /\ cf_n \in 0..MaxTerms
    /\ cut \in Cuts
    /\ cf = NotRun /\ recon = NotRun
    /\ PermUnused /\ PermIdle /\ PairIdle /\ LoopIdle /\ CollIdle

\* cf = x2contfrac(x, n, cut)
CallX2contfrac ==
    /\ cf = NotRun
    /\ cf' = x2contfrac(x, cf_n, cut)
    /\ UNCHANGED <<cf_a, cf_b, x, cf_n, cut, recon>>
    /\ UNCHANGED <<permVars, pairVars, loopVars, collVars>>

\* recon = contfrac2x(cf); the terms drawn fit an int
CallContfrac2x ==
    /\ IsOk(cf) /\ recon = NotRun
    /\ recon' = contfrac2x(cf.value)
    /\ UNCHANGED <<cf_a, cf_b, x, cf_n, cut, cf>>
    /\ UNCHANGED <<permVars, pairVars, loopVars, collVars>>

NextCf ==
    \/ CallX2contfrac
    \/ CallContfrac2x

SpecCf == InitCf /\ [][NextCf]_vars

(***************************************************************************)
(* Properties of the continued fractions.                                  *)
(***************************************************************************)
Abs(k) == IF k < 0 THEN 0 - k ELSE k

\* the quotients of the Euclidean algorithm on (a, b), b > 0
RECURSIVE EuclidQuotients(_, _)
EuclidQuotients(a, b) ==
    IF a % b = 0 THEN <<a \div b>>
    ELSE <<a \div b>> \o EuclidQuotients(b, a % b)

LowestTerms(a, b) == gcd(Abs(a), b) = 1

\* the double v is a / b up to a relative error of 2^-(MantBits - 3)
WithinTolerance(v, a, b) ==
    /\ IsFinite(v)
    /\ Abs(v[1] * b - a * v[2]) * 2 ^ (MantBits - 3) <= Abs(a) * v[2]

Representable(a, b) ==
    LET d == ToDouble(a, b) IN d[1] * b = a * d[2]

\* every complete quotient of the Euclidean algorithm on (a, b), that is
\* a / b, b / r1, r1 / r2, ..., is a double
RECURSIVE ExactQuotients(_, _)
ExactQuotients(a, b) ==
    /\ Representable(a, b)
    /\ a % b = 0 \/ ExactQuotients(b, a % b)

====
